---- MODULE Spec2Model ----
(***************************************************************************)
(* Extraction orchestration engine of haulerhero/executive-dashboard:      *)
(* src/extraction/scope_pull.py (the current Scope driver),                *)
(* src/extraction/Scope Pull.py (its earlier revision) and                 *)
(* src/extraction/hubspot_pull.py (the HubSpot driver).                    *)
(*                                                                         *)
(* One process imports the module (RUN_ID is fixed at import), runs        *)
(* main() as the __main__ block says, and main() resolves the endpoint     *)
(* order and runs extract_endpoint for each endpoint in turn.  Every call  *)
(* that leaves the process (a page request with its retries, a blob read,  *)
(* a blob upload) is one step, so every reachable state is a point where   *)
(* the process can stop and the store keeps what the state shows.          *)
(*                                                                         *)
(* Timestamps are ISO-8601 strings compared lexically in the code; here    *)
(* they are small integers with the same order.                            *)
(***************************************************************************)
EXTENDS Integers, Sequences, FiniteSets, TLC

\* ------------------------------------------------------------------ bounds
\* longest dependency list of an endpoint in a run
MaxDeps == 1
\* longest dependency list given to the resolver on its own
MaxResolveDeps == 2
\* upstream records of the endpoint of a single-endpoint run
MaxRecords == 3
\* upstream records over all endpoints of a run of several endpoints
MaxRunRecords == 1
\* the last hour the clock reaches while the process runs
MaxHour == 1

\* ------------------------------------------------------- program constants
\* request_page(..., max_retries=5)
max_retries == 5
\* default_since, now - 7 days, on the integer time scale
default_since == 2

\* ----------------------------------------------------------------- helpers
SeqsUpTo(S, n) == UNION {[1..k -> S] : k \in 0..n}

Range(s) == {s[i] : i \in 1..Len(s)}

RECURSIVE SumSeq(_)
SumSeq(s) == IF s = <<>> THEN 0 ELSE Head(s) + SumSeq(Tail(s))

\* ------------------------------------------------------------- JSON values
\* A key is is_^is . base . ?^q : "archived?" is [is 0, base archived, q 1].
Key(base) == [is |-> 0, base |-> base, q |-> 0]
QKey(base) == [is |-> 0, base |-> base, q |-> 1]

JNone == [t |-> "none"]
JBool(b) == [t |-> "bool", b |-> b]
JStr(s) == [t |-> "str", s |-> s]
JDict(kv) == [t |-> "dict", kv |-> kv]
JList(xs) == [t |-> "list", xs |-> xs]

\* Python truthiness of a JSON value
Truthy(v) ==
    CASE v.t = "none" -> FALSE
      [] v.t = "bool" -> v.b
      [] v.t = "str" -> v.s # 0
      [] v.t = "dict" -> v.kv # <<>>
      [] v.t = "list" -> v.xs # <<>>

\* a or b
PyOr(a, b) == IF Truthy(a) THEN a ELSE b

\* d.get(k) of a dict value
dict_get(d, k) ==
    IF \E i \in 1..Len(d.kv) : d.kv[i].k = k
    THEN d.kv[CHOOSE i \in 1..Len(d.kv) : d.kv[i].k = k].v
    ELSE JNone

\* new_dict[k] = v : an existing key keeps its place, a new key goes last
dict_set(kv, k, v) ==
    IF \E i \in 1..Len(kv) : kv[i].k = k
    THEN [i \in 1..Len(kv) |-> IF kv[i].k = k THEN [k |-> k, v |-> v] ELSE kv[i]]
    ELSE Append(kv, [k |-> k, v |-> v])

\* -------------------------------------------------------- record normalizer
boolean_indicators ==
    {"archived", "published", "active", "enabled", "disabled", "show_resources",
     "published_for_web", "visible", "hidden", "required", "optional", "default"}

\* the new_key of one key (scope_pull.py lines 89-96)
new_key(key) ==
    IF key.q >= 1
    THEN LET base_name == [key EXCEPT !.q = @ - 1]
         IN  IF base_name.is = 0 /\ base_name.q = 0
                /\ base_name.base \in boolean_indicators
             THEN [base_name EXCEPT !.is = 1]
             ELSE base_name
    ELSE key

RECURSIVE rename_question_marks_recursive(_)
RECURSIVE rename_items(_, _)
rename_items(kv, new_dict) ==
    IF kv = <<>> THEN new_dict
    ELSE rename_items(Tail(kv),
            dict_set(new_dict, new_key(Head(kv).k),
                     rename_question_marks_recursive(Head(kv).v)))

rename_question_marks_recursive(obj) ==
    CASE obj.t = "dict" -> JDict(rename_items(obj.kv, <<>>))
      [] obj.t = "list" ->
            JList([i \in 1..Len(obj.xs) |-> rename_question_marks_recursive(obj.xs[i])])
      [] OTHER -> obj

dynamic_dict_fields == {Key("roles_users")}

\* a flattening pass that returns its input
normalize_dynamic_dicts_Identity(x) == x

RECURSIVE normalize_dynamic_dicts(_)
RECURSIVE normalize_items(_, _)
normalize_items(kv, new_dict) ==
    IF kv = <<>> THEN new_dict
    ELSE LET key == Head(kv).k
             value == Head(kv).v
         IN  normalize_items(Tail(kv),
                dict_set(new_dict, key,
                    IF key \in dynamic_dict_fields /\ value.t = "dict"
                    THEN JList([i \in 1..Len(value.kv) |->
                            JDict(<<[k |-> Key("key"), v |-> JStr(value.kv[i].k)],
                                    [k |-> Key("value"), v |-> value.kv[i].v]>>)])
                    ELSE normalize_dynamic_dicts(value)))

normalize_dynamic_dicts(obj) ==
    CASE obj.t = "dict" -> JDict(normalize_items(obj.kv, <<>>))
      [] obj.t = "list" ->
            JList([i \in 1..Len(obj.xs) |-> normalize_dynamic_dicts(obj.xs[i])])
      [] OTHER -> obj

\* ------------------------------------------------------ dependency resolver
\* A resolver result: the order returned, or the ValueError raised.
Returned(order) == [raised |-> FALSE, order |-> order]
Raised == [raised |-> TRUE, order |-> <<>>]

\* number of occurrences of x in the list s
Count(s, x) == Cardinality({i \in 1..Len(s) : s[i] = x})

\* a resolver that never counts an edge into in_degree
in_degree_built_NoCount(keys, dependencies) == [e \in Range(keys) |-> 0]

\* a resolver that counts every listed dependency, configured or not
in_degree_built_CountAll(keys, dependencies) ==
    [e \in Range(keys) |-> Len(dependencies[e])]

\* in_degree after "Build edges": one per configured dependency listed
in_degree_built(keys, dependencies) ==
    [e \in Range(keys) |->
        Cardinality({i \in 1..Len(dependencies[e]) : dependencies[e][i] \in Range(keys)})]

\* graph[dep] after "Build edges": the endpoints that list dep, in the
\* mapping's order, once per listing
RECURSIVE graph_of(_, _, _)
graph_of(keys, dependencies, dep) ==
    IF keys = <<>> THEN <<>>
    ELSE [i \in 1..Count(dependencies[Head(keys)], dep) |-> Head(keys)]
         \o graph_of(Tail(keys), dependencies, dep)

\* for neighbor in graph[current]: decrement, enqueue on zero
RECURSIVE relax(_, _, _)
relax(neighbors, in_degree, queue) ==
    IF neighbors = <<>> THEN [in_degree |-> in_degree, queue |-> queue]
    ELSE LET n == Head(neighbors)
             d == [in_degree EXCEPT ![n] = @ - 1]
         IN  relax(Tail(neighbors), d, IF d[n] = 0 THEN Append(queue, n) ELSE queue)

\* while queue: popleft, emit, relax
RECURSIVE kahn(_, _, _, _, _)
kahn(keys, dependencies, in_degree, queue, result) ==
    IF queue = <<>> THEN result
    ELSE LET current == Head(queue)
             r == relax(graph_of(keys, dependencies, current), in_degree, Tail(queue))
         IN  kahn(keys, dependencies, r.in_degree, r.queue, Append(result, current))

\* a resolver that returns the identifiers as the mapping lists them
resolve_dependencies_AsListed(keys, dependencies) == Returned(keys)

\* a resolver that returns what it emitted without the length check
resolve_dependencies_NoCheck(keys, dependencies) ==
    LET in_degree == in_degree_built(keys, dependencies)
        queue == SelectSeq(keys, LAMBDA ep : in_degree[ep] = 0)
    IN  Returned(kahn(keys, dependencies, in_degree, queue, <<>>))

resolve_dependencies(keys, dependencies) ==
    LET in_degree == in_degree_built(keys, dependencies)
        queue == SelectSeq(keys, LAMBDA ep : in_degree[ep] = 0)
        result == kahn(keys, dependencies, in_degree, queue, <<>>)
    IN  IF Len(result) # Len(keys) THEN Raised ELSE Returned(result)

\* ---------------------------------------------------------- configuration
\* the two revisions of the Scope driver under src/extraction
Scripts == {"scope_pull.py", "Scope Pull.py"}

\* main() calls of the __main__ block: scope_pull.py calls main() twice
main_calls_of(s) == IF s = "scope_pull.py" THEN 2 ELSE 1

\* RUN_ID, read once when the module is imported
RUN_ID == "run-of-this-process"

\* endpoint identifiers of a run, in the mapping's insertion order
RunKeys == <<"companies", "users">>

\* the endpoint of a single-endpoint run
PassKeys == <<"companies">>

\* endpoint identifiers given to the resolver on its own; "tags" is a
\* dependency identifier that is not configured
ResolveKeys == <<"companies", "users", "lists">>
UnknownDeps == {"tags"}

\* ENDPOINTS[k].resource, a string as the sequence of its path names and
\* separators
resource ==
    [companies     |-> <<"companies", "/", "search">>,
     task_statuses |-> <<"task-statuses", "/", "search">>,
     task_types    |-> <<"task-types", "/", "search">>,
     users         |-> <<"users", "/", "search">>,
     company_users |-> <<"company-users", "/", "search">>,
     lists         |-> <<"lists", "/", "search">>,
     tasks         |-> <<"tasks", "/", "search">>,
     field_groups  |-> <<"field-groups", "/", "search">>,
     fields        |-> <<"fields", "/", "search">>,
     tags          |-> <<"tags", "/", "search">>]

\* str.replace(old, new)
replace(str, old, new) ==
    [i \in 1..Len(str) |-> IF str[i] = old THEN new ELSE str[i]]

\* a state key that forgets the resource
state_key_Shared(endpoint_key) == <<"scope">>

\* EndpointConfig.__post_init__: no entry of ENDPOINTS gives a state_key,
\* so it is the resource with '/' replaced by '_'
state_key(endpoint_key) == replace(resource[endpoint_key], "/", "_")

\* ENDPOINTS[k].page_size: the endpoints of the model ask for pages of 2
page_size(endpoint_key) == 2

\* an upstream record: {"archived?": a, "updated_at": ts}
Rec(a, ts) ==
    JDict(<<[k |-> QKey("archived"), v |-> JBool(a)],
            [k |-> Key("updated_at"), v |-> JStr(ts)]>>)

\* an upstream item that is not an object
Malformed == JStr(1)

\* what an upstream dataset is made of: a live record last updated before
\* default_since, a live one and an archived one updated after it, and an
\* item that is no object
RecordKinds == {Rec(FALSE, 1), Rec(FALSE, 3), Rec(TRUE, 3), Malformed}

\* --------------------------------------------------------------- variables
VARIABLES
    script,                 \* which revision runs
    ENDPOINTS,              \* [keys: insertion order, dependencies: per key]
    upstream,               \* the records the API holds for each endpoint
    wrapper,                \* the shape of the API's page responses
    now_hr,                 \* hour of utcnow()
    state_store,            \* state/scope/<state_key>.json -> updated_after
    part_store,             \* <prefix>/part-00000.json.gz -> written lines
    success_store,          \* the prefixes whose _SUCCESS exists
    pc,                     \* position of the process
    main_calls,             \* main() calls begun
    resolved,               \* outcome of resolve_dependencies in this main()
    execution_order,
    idx,                    \* position of the for loop in execution_order
    total_records,
    successful_endpoints,
    records,                \* what the last extract_endpoint call returned
    updated_after,          \* locals of extract_endpoint
    part_key,
    total,
    max_seen_ts,
    offset,
    gz,
    started,                \* endpoints whose pass began in this main()
    run_io,                 \* a request or a blob call happened in this main()
    pass_err,               \* an error was raised in the current/last pass
    loop_exit,              \* how the pagination loop of that pass ended
    state_before,           \* state_store when that pass began
    pass_ops,               \* blob writes of that pass, in order
    marker_exit,            \* per marker: loop_exit of the pass that wrote it
    requested,              \* offsets of the page requests of that pass
    resolver_out,           \* result of the resolver run on its own
    responses,              \* what the server answers to a request_page call
    request_out,            \* how that request_page call on its own ended
    customer_company_ids,   \* hubspot_pull.py: companies of the filtered deals
    company_queue,          \* hubspot_pull.py: company ids still to fetch
    obj,                    \* a record given to the normalizer on its own
    renamed,                \* rename_question_marks_recursive(obj)
    flattened               \* normalize_dynamic_dicts(obj)

cfg == <<script, ENDPOINTS, upstream, wrapper>>
store == <<state_store, part_store, success_store>>
mainv == <<pc, main_calls, resolved, execution_order, idx, total_records,
           successful_endpoints, records>>
passv == <<updated_after, part_key, total, max_seen_ts, offset, gz>>
ghost == <<started, run_io, pass_err, loop_exit, state_before, pass_ops,
           marker_exit, requested>>
reqv == <<responses, request_out>>
hubv == <<customer_company_ids, company_queue>>
normv == <<obj, renamed, flattened>>
vars == <<cfg, now_hr, store, mainv, passv, ghost, resolver_out, reqv, hubv, normv>>

\* the empty blob listing
NoBlobs == <<>>

\* blob.upload_*: the object at key is replaced
put(blobs, key, content) == (key :> content) @@ blobs

\* ------------------------------------------------------------- request_page
\* a request_page that retries a 404 as well
Transient_With404 == {404, 429, 500, 502, 503}

\* Status codes of the responses; 0 stands for requests.post raising
\* (connection error, timeout) instead of returning a response.
NoResponse == 0
Transient == {429, 500, 502, 503}

\* The for loop of request_page over the responses the server gives to the
\* successive attempts: what the call ends with, the requests sent, the sleeps.
RECURSIVE request_page_loop(_, _, _, _)
request_page_loop(answers, attempt, backoff, sleeps) ==
    IF attempt = max_retries
    THEN [ends |-> "HTTPError", sent |-> attempt, sleeps |-> sleeps,
                   backoff |-> backoff]
    ELSE LET status_code == answers[attempt + 1]
         IN  IF status_code = NoResponse
             THEN [ends |-> "RequestException", sent |-> attempt + 1, sleeps |-> sleeps,
                   backoff |-> backoff]
             ELSE IF status_code \in Transient
             THEN request_page_loop(answers, attempt + 1,
                      IF backoff * 2 < 30 THEN backoff * 2 ELSE 30,
                      Append(sleeps, backoff))
             ELSE IF status_code >= 400
             THEN [ends |-> "HTTPError", sent |-> attempt + 1, sleeps |-> sleeps,
                   backoff |-> backoff]
             ELSE [ends |-> "json", sent |-> attempt + 1, sleeps |-> sleeps,
                   backoff |-> backoff]

\* a call whose first delay is 2
request_page_Start2(answers) == request_page_loop(answers, 0, 2, <<>>)

request_page(answers) == request_page_loop(answers, 0, 1, <<>>)

\* no request_page call was made
NoCall == [ends |-> "none", sent |-> 0, sleeps |-> <<>>, backoff |-> 1]

\* A response with its Retry-After header: absent, a number of seconds, or
\* an HTTP-date (the two forms the header has).
NoHint == [kind |-> "absent", seconds |-> 0]
Seconds(n) == [kind |-> "seconds", seconds |-> n]
HttpDate == [kind |-> "date", seconds |-> 0]
Response(status_code, retry_after) ==
    [status_code |-> status_code, retry_after |-> retry_after]

\* the status codes of a sequence of responses
status_codes(rs) == [i \in 1..Len(rs) |-> rs[i].status_code]

\* hubspot_pull.py, elif resp.status_code in (500, 502, 503)
hubspot_server_errors == {500, 502, 503}

\* hubspot_pull.py, the for loop of request_page (lines 55-72): a 429 sleeps
\* int(resp.headers.get('Retry-After', backoff)), and int() of a header that is
\* no integer raises ValueError; 500, 502 and 503 sleep backoff.
RECURSIVE hubspot_request_page_loop(_, _, _, _)
hubspot_request_page_loop(rs, attempt, backoff, sleeps) ==
    IF attempt = max_retries
    THEN [ends |-> "HTTPError", sent |-> attempt, sleeps |-> sleeps,
                   backoff |-> backoff]
    ELSE LET resp == rs[attempt + 1]
             next_backoff == IF backoff * 2 < 60 THEN backoff * 2 ELSE 60
         IN  IF resp.status_code = NoResponse
             THEN [ends |-> "RequestException", sent |-> attempt + 1, sleeps |-> sleeps,
                   backoff |-> backoff]
             ELSE IF resp.status_code = 429
             THEN IF resp.retry_after.kind = "date"
                  THEN [ends |-> "ValueError", sent |-> attempt + 1, sleeps |-> sleeps,
                   backoff |-> backoff]
                  ELSE LET retry_after ==
                               IF resp.retry_after.kind = "seconds"
                               THEN resp.retry_after.seconds ELSE backoff
                       IN  hubspot_request_page_loop(rs, attempt + 1, next_backoff,
                                                     Append(sleeps, retry_after))
             ELSE IF resp.status_code \in hubspot_server_errors
             THEN hubspot_request_page_loop(rs, attempt + 1, next_backoff,
                                            Append(sleeps, backoff))
             ELSE IF resp.status_code >= 400
             THEN [ends |-> "HTTPError", sent |-> attempt + 1, sleeps |-> sleeps,
                   backoff |-> backoff]
             ELSE [ends |-> "json", sent |-> attempt + 1, sleeps |-> sleeps,
                   backoff |-> backoff]

hubspot_request_page(rs) == hubspot_request_page_loop(rs, 0, 1, <<>>)

\* the request_page of each script of src/extraction on the same responses
RequestClients == {"scope_pull.py", "Scope Pull.py", "hubspot_pull.py"}
request_page_of(s, rs) ==
    IF s = "hubspot_pull.py" THEN hubspot_request_page(rs)
    ELSE request_page(status_codes(rs))

\* what the server may answer to the attempts of one call: k transient
\* responses, then a final one (or max_retries transient ones)
TransientAt(i) == <<429, 500, 502, 503>>[((i - 1) % 4) + 1]
ResponseScripts ==
    {[i \in 1..(k + 1) |-> IF i <= k THEN TransientAt(i) ELSE final] :
        k \in 0..(max_retries - 1), final \in {200, 404, NoResponse}}
    \cup {[i \in 1..max_retries |-> TransientAt(i)]}

\* the same with headers, as what the server would answer to each of
\* max_retries attempts: k transient responses of one status carrying one
\* Retry-After value, then the final response to every later attempt (or
\* transient responses to all attempts)
RetryAfterValues == {NoHint, Seconds(7), HttpDate}
FinalStatuses == {200, 404, NoResponse}
HintedScripts ==
    {[i \in 1..max_retries |->
            IF i <= k THEN Response(st, h) ELSE Response(final, NoHint)] :
        k \in 0..(max_retries - 1), st \in {429, 500, 502, 503},
        h \in RetryAfterValues, final \in FinalStatuses}
    \cup {[i \in 1..max_retries |-> Response(st, h)] :
            st \in {429, 500, 502, 503}, h \in RetryAfterValues}

\* an API that returns one record fewer than it holds for the page
page_of_OneShort(dataset, off, limit) ==
    SubSeq(dataset, off + 1,
           IF off + limit < Len(dataset) THEN off + limit - 1 ELSE Len(dataset) - 1)

\* the page the API returns for {"offset": offset, "limit": limit}
page_of(dataset, off, limit) ==
    SubSeq(dataset, off + 1, IF off + limit < Len(dataset) THEN off + limit ELSE Len(dataset))

\* --------------------------------------------------- extract_endpoint: a page
\* acc is [total, max_seen_ts, gz, raised]

\* ts = rec.get("updated_at") or rec.get("updatedAt") or rec.get("modifiedAt")
cursor_of(rec) ==
    PyOr(PyOr(dict_get(rec, Key("updated_at")), dict_get(rec, Key("updatedAt"))),
         dict_get(rec, Key("modifiedAt")))

\* a pass that keeps the cursor value it saw last
track_Last(seen, ts) == IF Truthy(ts) THEN ts.s ELSE seen

\* if ts and ts > max_seen_ts: max_seen_ts = ts
track(seen, ts) == IF Truthy(ts) /\ ts.s > seen THEN ts.s ELSE seen

\* scope_pull.py, body of the inner "for rec in items" (lines 271-302)
inner_body(acc, rec) ==
    IF rec.t # "dict" THEN [acc EXCEPT !.raised = TRUE]
    ELSE LET out == normalize_dynamic_dicts(rename_question_marks_recursive(rec))
         IN  [acc EXCEPT !.max_seen_ts = track(@, cursor_of(out)),
                         !.gz = Append(@, out),
                         !.total = @ + 1]

RECURSIVE inner_loop(_, _)
inner_loop(items, acc) ==
    IF items = <<>> \/ acc.raised THEN acc
    ELSE inner_loop(Tail(items), inner_body(acc, Head(items)))

\* scope_pull.py, the outer "for rec in items" (lines 260-302): every turn
\* reads rec.keys() and then runs the inner loop over the whole page
RECURSIVE outer_loop(_, _, _)
outer_loop(rest, items, acc) ==
    IF rest = <<>> \/ acc.raised THEN acc
    ELSE IF Head(rest).t # "dict" THEN [acc EXCEPT !.raised = TRUE]
    ELSE outer_loop(Tail(rest), items, inner_loop(items, acc))

\* Scope Pull.py, body of "for rec in items" (lines 212-223)
legacy_body(acc, rec) ==
    IF rec.t # "dict" THEN [acc EXCEPT !.raised = TRUE]
    ELSE IF dict_get(rec, QKey("archived")) = JBool(TRUE) THEN acc
    ELSE [acc EXCEPT !.max_seen_ts = track(@, cursor_of(rec)),
                     !.gz = Append(@, rec),
                     !.total = @ + 1]

RECURSIVE legacy_loop(_, _)
legacy_loop(items, acc) ==
    IF items = <<>> \/ acc.raised THEN acc
    ELSE legacy_loop(Tail(items), legacy_body(acc, Head(items)))

\* the record loop of the running revision over one page
process_page(s, items, acc) ==
    IF s = "scope_pull.py" THEN outer_loop(items, items, acc)
    ELSE legacy_loop(items, acc)

\* ------------------------------------------------------- watermark store
\* a state object {"updated_after": iso}, and the object {} without the field
StateObject(iso) == [updated_after |-> iso]
EmptyObject == <<>>

\* a read_state that never looks at the store
read_state_AlwaysDefault(blobs, endpoint_key, default_iso) == default_iso

\* read_state: default_iso when no blob exists, else
\* data.get("updated_after", default_iso) of the stored object
read_state(blobs, endpoint_key, default_iso) ==
    IF endpoint_key \notin DOMAIN blobs THEN default_iso
    ELSE IF "updated_after" \in DOMAIN blobs[endpoint_key]
    THEN blobs[endpoint_key].updated_after
    ELSE default_iso

\* write_state: the blob is replaced by {"updated_after": new_iso}
write_state(blobs, endpoint_key, new_iso) ==
    put(blobs, endpoint_key, StateObject(new_iso))

\* ------------------------------------------------- control flow of a pass
\* "except requests.HTTPError: break" (scope_pull.py lines 246-248): the
\* loop ends and the code after the loop runs
on_http_error == "after_loop"

\* "# Upload results" (lines 311-320): with records the data file is
\* uploaded next, without records the pass returns
after_loop_Always(n) == "upload_part"

after_loop_WriteFirst(n) == IF n > 0 THEN "write_state" ELSE "returned"

after_loop(n) == IF n > 0 THEN "upload_part" ELSE "returned"

\* lines 313-315: data file, then marker, then watermark
after_upload(step) ==
    CASE step = "upload_part" -> "upload_success"
      [] step = "upload_success" -> "write_state"
      [] step = "write_state" -> "returned"

\* main(), "except Exception: ... continue" (lines 388-391)
after_failure_Break(i, order) == Len(order) + 1

after_failure(i, order) == i + 1

\* main(), lines 371-376: a ValueError of the resolver ends main()
after_resolve_Fallback(r, ks) ==
    IF r.raised THEN [pc |-> "loop", order |-> ks, resolved |-> "cycle"]
    ELSE [pc |-> "loop", order |-> r.order, resolved |-> "ok"]

after_resolve(r, ks) ==
    IF r.raised THEN [pc |-> "start", order |-> <<>>, resolved |-> "cycle"]
    ELSE [pc |-> "loop", order |-> r.order, resolved |-> "ok"]

\* One request_page call of the pagination loop and the code that follows it
\* up to the next call that leaves the process (lines 238-312).
\* loc is [total, max_seen_ts, gz, offset]; the result adds ctl (where the
\* pass goes on) and exit (how the loop ended, "none" while it runs).
\* the body of a page response of the given shape that carries the records
wrap(shape, page) ==
    CASE shape = "array" -> JList(page)
      [] shape = "data" -> JDict(<<[k |-> Key("data"), v |-> JList(page)]>>)
      [] shape = "items" -> JDict(<<[k |-> Key("items"), v |-> JList(page)]>>)
      [] shape = "items_beside_empty_data" ->
            JDict(<<[k |-> Key("data"), v |-> JList(<<>>)],
                    [k |-> Key("items"), v |-> JList(page)]>>)
      [] shape = "results" -> JDict(<<[k |-> Key("results"), v |-> JList(page)]>>)
      [] shape = "text" -> JStr(1)
      [] shape = "null" -> JNone

\* a fetcher that knows top-level arrays only
items_of_ArrayOnly(data) == IF data.t = "list" THEN data ELSE JNone

\* "Handle different response wrappers": items = None; a dict gives
\* data.get("data") or data.get("items"), a list gives itself
items_of(data) ==
    IF data.t = "dict"
    THEN PyOr(dict_get(data, Key("data")), dict_get(data, Key("items")))
    ELSE IF data.t = "list" THEN data
    ELSE JNone

\* one turn of the pagination loop; "if not items: break" makes every
\* falsy items an empty page
request_step(s, shape, answers, dataset, limit, loc) ==
    LET r == request_page(answers)
        stay == [total |-> loc.total, max_seen_ts |-> loc.max_seen_ts,
                 gz |-> loc.gz, offset |-> loc.offset]
        found == items_of(wrap(shape, page_of(dataset, loc.offset, limit)))
        items == IF Truthy(found) THEN found.xs ELSE <<>>
        acc == process_page(s, items,
                   [total |-> loc.total, max_seen_ts |-> loc.max_seen_ts,
                    gz |-> loc.gz, raised |-> FALSE])
        done == [total |-> acc.total, max_seen_ts |-> acc.max_seen_ts,
                 gz |-> acc.gz, offset |-> loc.offset]
    IN  CASE r.ends = "RequestException" ->
                stay @@ [ctl |-> "raised", exit |-> "none", err |-> TRUE]
          [] r.ends = "HTTPError" ->
                stay @@ [ctl |-> IF on_http_error = "after_loop"
                                 THEN after_loop(loc.total) ELSE "raised",
                         exit |-> "http_error", err |-> TRUE]
          [] r.ends = "json" /\ items = <<>> ->
                stay @@ [ctl |-> after_loop(loc.total), exit |-> "empty", err |-> FALSE]
          [] r.ends = "json" /\ items # <<>> /\ acc.raised ->
                stay @@ [ctl |-> "raised", exit |-> "none", err |-> TRUE]
          [] r.ends = "json" /\ items # <<>> /\ ~acc.raised /\ Len(items) < limit ->
                done @@ [ctl |-> after_loop(acc.total), exit |-> "short", err |-> FALSE]
          [] OTHER ->
                [done EXCEPT !.offset = @ + limit]
                    @@ [ctl |-> "request", exit |-> "none", err |-> FALSE]

\* ------------------------------------------------------------------- Init
NoKey == [state_key |-> <<>>, hr |-> 0, run |-> RUN_ID]

\* the locals of extract_endpoint while no pass runs
NoLocals ==
    [updated_after |-> 0, part_key |-> NoKey, total |-> 0, max_seen_ts |-> 0,
     offset |-> 0, gz |-> <<>>]

Locals ==
    [updated_after |-> updated_after, part_key |-> part_key, total |-> total,
     max_seen_ts |-> max_seen_ts, offset |-> offset, gz |-> gz]

\* everything but the configuration, before the process does anything
FreshProcess ==
    /\ now_hr = 0
    /\ part_store = NoBlobs /\ success_store = {}
    /\ main_calls = 0 /\ resolved = "none" /\ execution_order = <<>> /\ idx = 0
    /\ total_records = 0 /\ successful_endpoints = <<>> /\ records = 0
    /\ updated_after = 0 /\ part_key = NoKey /\ total = 0 /\ max_seen_ts = 0
    /\ offset = 0 /\ gz = <<>>
    /\ started = {} /\ run_io = FALSE /\ pass_err = FALSE /\ loop_exit = "none"
    /\ state_before = NoBlobs /\ pass_ops = <<>> /\ marker_exit = NoBlobs
    /\ requested = <<>>
    /\ resolver_out = Returned(<<>>)
    /\ responses = <<>> /\ request_out = NoCall
    /\ customer_company_ids = {} /\ company_queue = <<>>
    /\ obj = JNone /\ renamed = JNone /\ flattened = JNone

\* the same over a store without state objects
Fresh == state_store = NoBlobs /\ FreshProcess

Configs(ks, n) ==
    {[keys |-> ks, dependencies |-> d] : d \in [Range(ks) -> SeqsUpTo(Range(ks), n)]}

Upstreams(ks, n) ==
    {u \in [Range(ks) -> SeqsUpTo(RecordKinds, n)] :
        SumSeq([i \in 1..Len(ks) |-> Len(u[ks[i]])]) <= n}

\* a run of several endpoints
Init ==
    /\ script \in Scripts
    /\ wrapper = "data"
    /\ ENDPOINTS \in Configs(RunKeys, MaxDeps)
    /\ upstream \in Upstreams(RunKeys, MaxRunRecords)
    /\ pc = "start"
    /\ Fresh

\* a run of one endpoint
InitPass ==
    /\ script \in Scripts
    /\ wrapper = "data"
    /\ ENDPOINTS \in Configs(PassKeys, MaxDeps)
    /\ upstream \in Upstreams(PassKeys, MaxRecords)
    /\ pc = "start"
    /\ Fresh

\* ---------------------------------------------------------------- actions
\* main() up to the for loop (lines 361-380)
MainResolve ==
    /\ pc = "start"
    /\ main_calls < main_calls_of(script)
    /\ main_calls' = main_calls + 1
    /\ LET a == after_resolve(
                    resolve_dependencies(ENDPOINTS.keys, ENDPOINTS.dependencies),
                    ENDPOINTS.keys)
       IN  /\ pc' = a.pc
           /\ execution_order' = a.order
           /\ resolved' = a.resolved
           /\ idx' = IF a.pc = "loop" THEN 1 ELSE 0
    /\ total_records' = 0
    /\ successful_endpoints' = <<>>
    /\ records' = 0
    /\ started' = {}
    /\ run_io' = FALSE
    /\ UNCHANGED <<cfg, reqv, hubv, normv, requested, now_hr, store, passv, pass_err, loop_exit, state_before,
                   pass_ops, marker_exit, resolver_out>>

\* How the process goes on after a step of a pass: the pass goes on at ctl
\* with the locals loc, or it returns loc.total to main() (lines 385-387),
\* or it raises into main()'s "except Exception" (lines 388-391).
Finish(ctl, loc) ==
    /\ IF ctl = "returned"
       THEN /\ pc' = "loop"
            /\ idx' = idx + 1
            /\ records' = loc.total
            /\ total_records' = total_records + loc.total
            /\ successful_endpoints' = Append(successful_endpoints, execution_order[idx])
       ELSE IF ctl = "raised"
       THEN /\ pc' = "loop"
            /\ idx' = after_failure(idx, execution_order)
            /\ UNCHANGED <<records, total_records, successful_endpoints>>
       ELSE /\ pc' = ctl
            /\ UNCHANGED <<idx, records, total_records, successful_endpoints>>
    /\ LET l == IF ctl \in {"returned", "raised"} THEN NoLocals ELSE loc
       IN  /\ updated_after' = l.updated_after
           /\ part_key' = l.part_key
           /\ total' = l.total
           /\ max_seen_ts' = l.max_seen_ts
           /\ offset' = l.offset
           /\ gz' = l.gz

\* extract_endpoint up to the pagination loop (lines 210-235): read_state,
\* utcnow() for the partition path, the locals
StartPass ==
    /\ pc = "loop"
    /\ idx <= Len(execution_order)
    /\ started' = started \cup {execution_order[idx]}
    /\ run_io' = TRUE
    /\ state_before' = state_store
    /\ pass_ops' = <<>>
    /\ loop_exit' = "none"
    /\ requested' = <<>>
    /\ \/ \E hr \in now_hr..MaxHour :
            LET since == read_state(state_store, state_key(execution_order[idx]),
                                    default_since)
            IN  /\ now_hr' = hr
                /\ pass_err' = FALSE
                /\ Finish("request",
                      [updated_after |-> since,
                       part_key |-> [state_key |-> state_key(execution_order[idx]),
                                     hr |-> hr, run |-> RUN_ID],
                       total |-> 0, max_seen_ts |-> since, offset |-> 0, gz |-> <<>>])
       \/ /\ pass_err' = TRUE
          /\ Finish("raised", Locals)
          /\ UNCHANGED now_hr
    /\ UNCHANGED <<cfg, reqv, hubv, normv, store, main_calls, resolved, execution_order, marker_exit,
                   resolver_out>>

\* one turn of the pagination loop (lines 238-312)
RequestPage ==
    /\ pc = "request"
    /\ requested' = Append(requested, offset)
    /\ \E answers \in ResponseScripts :
          LET n == request_step(script, wrapper, answers, upstream[execution_order[idx]],
                                page_size(execution_order[idx]), Locals)
          IN  /\ loop_exit' = n.exit
              /\ pass_err' = (pass_err \/ n.err)
              /\ Finish(n.ctl, [Locals EXCEPT !.total = n.total,
                                              !.max_seen_ts = n.max_seen_ts,
                                              !.gz = n.gz,
                                              !.offset = n.offset])
    /\ UNCHANGED <<cfg, reqv, hubv, normv, now_hr, store, main_calls, resolved, execution_order,
                   started, run_io, state_before, pass_ops, marker_exit, resolver_out>>

\* a blob call of the pass that raises (lines 313-315)
UploadRaises ==
    /\ pc \in {"upload_part", "upload_success", "write_state"}
    /\ pass_err' = TRUE
    /\ Finish("raised", Locals)
    /\ UNCHANGED <<cfg, reqv, hubv, normv, requested, now_hr, store, main_calls, resolved, execution_order,
                   started, run_io, loop_exit, state_before, pass_ops, marker_exit,
                   resolver_out>>

\* upload_gzip_bytes(BUCKET, part_key, ...) (line 313)
UploadPart ==
    /\ pc = "upload_part"
    /\ part_store' = put(part_store, part_key, gz)
    /\ pass_ops' = Append(pass_ops, "part")
    /\ Finish(after_upload("upload_part"), Locals)
    /\ UNCHANGED <<cfg, reqv, hubv, normv, requested, now_hr, state_store, success_store, main_calls, resolved,
                   execution_order, started, run_io, pass_err, loop_exit,
                   state_before, marker_exit, resolver_out>>

\* upload_gzip_bytes(BUCKET, success_key, ...) (line 314)
UploadSuccess ==
    /\ pc = "upload_success"
    /\ success_store' = success_store \cup {part_key}
    /\ marker_exit' = put(marker_exit, part_key, loop_exit)
    /\ pass_ops' = Append(pass_ops, "success")
    /\ Finish(after_upload("upload_success"), Locals)
    /\ UNCHANGED <<cfg, reqv, hubv, normv, requested, now_hr, state_store, part_store, main_calls, resolved,
                   execution_order, started, run_io, pass_err, loop_exit,
                   state_before, resolver_out>>

\* write_state(config.state_key, max_seen_ts) and return total (lines 315-320)
WriteState ==
    /\ pc = "write_state"
    /\ state_store' = write_state(state_store, part_key.state_key, max_seen_ts)
    /\ pass_ops' = Append(pass_ops, "state")
    /\ Finish(after_upload("write_state"), Locals)
    /\ UNCHANGED <<cfg, reqv, hubv, normv, requested, now_hr, part_store, success_store, main_calls, resolved,
                   execution_order, started, run_io, pass_err, loop_exit,
                   state_before, marker_exit, resolver_out>>

\* main() after the for loop: the summary is printed and main() returns
\* (lines 393-396)
Summary ==
    /\ pc = "loop"
    /\ idx > Len(execution_order)
    /\ pc' = "start"
    /\ UNCHANGED <<cfg, reqv, hubv, normv, now_hr, store, main_calls, resolved, execution_order, idx,
                   total_records, successful_endpoints, records, passv, ghost,
                   resolver_out>>

Next ==
    \/ MainResolve
    \/ StartPass
    \/ RequestPage
    \/ UploadPart
    \/ UploadSuccess
    \/ WriteState
    \/ UploadRaises
    \/ Summary

Spec == Init /\ [][Next]_vars

SpecPass == InitPass /\ [][Next]_vars

\* ------------------------------------- one endpoint with well-formed records
\* most upstream records of the endpoint of a pagination run
MaxPageRecords == 5

InitPages ==
    /\ script \in Scripts
    /\ wrapper = "data"
    /\ ENDPOINTS \in Configs(PassKeys, 0)
    /\ upstream \in [Range(PassKeys) ->
                       SeqsUpTo({Rec(FALSE, 1), Rec(FALSE, 3)}, MaxPageRecords)]
    /\ pc = "start"
    /\ Fresh

SpecPages == InitPages /\ [][Next]_vars

\* --------------------------- one endpoint over a store that may hold state
\* most upstream records of the endpoint of such a run
MaxStateRecords == 2

\* what state/scope/<state_key>.json holds before the process starts:
\* nothing, an object without updated_after, or an earlier watermark
PriorStates ==
    {NoBlobs} \cup
    {state_key(PassKeys[1]) :> o : o \in {EmptyObject, StateObject(1), StateObject(3)}}

InitState ==
    /\ script \in Scripts
    /\ wrapper = "data"
    /\ ENDPOINTS \in Configs(PassKeys, 0)
    /\ upstream \in [Range(PassKeys) ->
                       SeqsUpTo({Rec(FALSE, 1), Rec(FALSE, 3)}, MaxStateRecords)]
    /\ pc = "start"
    /\ state_store \in PriorStates
    /\ FreshProcess

SpecState == InitState /\ [][Next]_vars

\* ------------------------------ one endpoint whose API answers in some shape
\* the shapes of a page body: the three the fetcher unwraps, an object
\* holding an empty data beside items, an object with neither field, a
\* string and null
Shapes == {"array", "data", "items", "items_beside_empty_data",
           "results", "text", "null"}

InitShapes ==
    /\ script \in Scripts
    /\ wrapper \in Shapes
    /\ ENDPOINTS \in Configs(PassKeys, 0)
    /\ upstream \in [Range(PassKeys) ->
                       SeqsUpTo({Rec(FALSE, 1), Rec(FALSE, 3)}, MaxRecords)]
    /\ pc = "start"
    /\ Fresh

SpecShapes == InitShapes /\ [][Next]_vars

\* ------------------------------------------------- the resolver on its own
ResolveConfigs ==
    {[keys |-> ResolveKeys, dependencies |-> d] :
        d \in [Range(ResolveKeys) ->
                 SeqsUpTo(Range(ResolveKeys) \cup UnknownDeps, MaxResolveDeps)]}

InitResolve ==
    /\ script = "scope_pull.py"
    /\ wrapper = "data"
    /\ ENDPOINTS \in ResolveConfigs
    /\ upstream = [e \in Range(ResolveKeys) |-> <<>>]
    /\ pc = "resolver"
    /\ Fresh

\* resolve_dependencies(ENDPOINTS) called on the mapping
ResolveOnly ==
    /\ pc = "resolver"
    /\ resolver_out' = resolve_dependencies(ENDPOINTS.keys, ENDPOINTS.dependencies)
    /\ pc' = "resolver_done"
    /\ UNCHANGED <<cfg, reqv, hubv, normv, now_hr, store, main_calls, resolved, execution_order, idx,
                   total_records, successful_endpoints, records, passv, ghost>>

NextResolve == ResolveOnly

SpecResolve == InitResolve /\ [][NextResolve]_vars

\* ---------------------------------------------------------- hubspot_pull.py
\* most deals of a run (a bound), and the page length the model asks for
\* ("limit": 100 in the script)
MaxDeals == 3
deals_limit == 2

\* cutoff_date, utcnow() - 18 * 30 days, on the integer time scale
cutoff_date == 2

\* properties.closedate of a deal: absent or empty, a text that is no date,
\* a date ("2023-01-15") or a datetime ("2023-01-15T12:34:56.789Z")
NoDate == [form |-> "none", at |-> 0]
BadDate == [form |-> "text", at |-> 0]
DateOnly(t) == [form |-> "date", at |-> t]
DateTime(t) == [form |-> "datetime", at |-> t]

\* parse_hubspot_date: None (0 here) for an empty or unparsable string
parse_hubspot_date(date_str) ==
    IF date_str.form \in {"none", "text"} THEN 0 ELSE date_str.at

\* str.lower() on the deal stages of the model
lower(st) == IF st = "ClosedWon" THEN "closedwon" ELSE st

\* a deal: its closedate, its dealstage ("<null>" for a JSON null) and the
\* company the association lookup gives (0 for None: no association, or
\* the lookup failed and get_deal_company_association swallowed the error)
Deal(closedate, dealstage, company) ==
    [closedate |-> closedate, dealstage |-> dealstage, company |-> company]

DealKinds ==
    {Deal(DateTime(3), "closedwon", 1), Deal(DateOnly(3), "ClosedWon", 2),
     Deal(DateTime(3), "closedwon", 0), Deal(NoDate, "closedwon", 1),
     Deal(BadDate, "closedwon", 1), Deal(DateOnly(1), "closedwon", 1),
     Deal(DateTime(3), "qualified", 1), Deal(DateTime(3), "<null>", 1)}

HubspotKeys == <<"deals", "companies">>

\* body of "for deal in results" (lines 160-205); acc is
\* [total, gz, ids, raised]
deals_body(acc, deal) ==
    IF deal.closedate.form = "none" THEN acc
    ELSE IF parse_hubspot_date(deal.closedate) = 0 THEN acc
    ELSE IF parse_hubspot_date(deal.closedate) < cutoff_date THEN acc
    ELSE IF deal.dealstage = "<null>" THEN [acc EXCEPT !.raised = TRUE]
    ELSE IF lower(deal.dealstage) # "closedwon" THEN acc
    ELSE [acc EXCEPT !.total = @ + 1,
                     !.ids = IF deal.company # 0 THEN @ \cup {deal.company} ELSE @,
                     !.gz = Append(@, deal)]

RECURSIVE deals_loop(_, _)
deals_loop(results, acc) ==
    IF results = <<>> \/ acc.raised THEN acc
    ELSE deals_loop(Tail(results), deals_body(acc, Head(results)))

\* an extract function that uploads the marker first
hubspot_after_loop_MarkerFirst(n, part, done) ==
    IF n > 0
    THEN IF part = "h_deals_part" THEN "h_deals_success" ELSE "h_companies_success"
    ELSE done

\* "# Upload results" of both extract functions: if total: part, marker
hubspot_after_loop(n, part, done) == IF n > 0 THEN part ELSE done

\* One turn of "while True" of extract_customer_deals (lines 146-211) with
\* the association lookups of its deals; loc is [total, gz, ids, after].
deals_step(rs, deals, loc) ==
    LET r == hubspot_request_page(rs)
        results == page_of(deals, loc.after, deals_limit)
        acc == deals_loop(results, [total |-> loc.total, gz |-> loc.gz,
                                    ids |-> loc.ids, raised |-> FALSE])
        after == IF loc.after + deals_limit < Len(deals)
                 THEN loc.after + deals_limit ELSE 0
        done == [total |-> acc.total, gz |-> acc.gz, ids |-> acc.ids, after |-> after]
    IN  CASE r.ends \in {"RequestException", "ValueError"} ->
                loc @@ [ctl |-> "h_crashed", exit |-> "none", err |-> TRUE]
          [] r.ends = "HTTPError" ->
                loc @@ [ctl |-> hubspot_after_loop(loc.total, "h_deals_part", "h_companies"),
                        exit |-> "http_error", err |-> TRUE]
          [] r.ends = "json" /\ results = <<>> ->
                loc @@ [ctl |-> hubspot_after_loop(loc.total, "h_deals_part", "h_companies"),
                        exit |-> "empty", err |-> FALSE]
          [] r.ends = "json" /\ results # <<>> /\ acc.raised ->
                loc @@ [ctl |-> "h_crashed", exit |-> "none", err |-> TRUE]
          [] r.ends = "json" /\ results # <<>> /\ ~acc.raised /\ after = 0 ->
                done @@ [ctl |-> hubspot_after_loop(acc.total, "h_deals_part", "h_companies"),
                         exit |-> "last_page", err |-> FALSE]
          [] OTHER ->
                done @@ [ctl |-> "h_deals_request", exit |-> "none", err |-> FALSE]

\* what the server may answer to the attempts of one request_page call of
\* hubspot_pull.py: the scripts of the Scope runs without Retry-After, a 429
\* with a Retry-After in seconds, and a 429 with a Retry-After date
HubspotScripts ==
    {[i \in 1..Len(a) |-> Response(a[i], NoHint)] : a \in ResponseScripts}
    \cup {<<Response(429, Seconds(7)), Response(200, NoHint)>>,
          <<Response(429, HttpDate)>>}

\* the orders in which "for company_id in customer_company_ids" may go
\* through a set
Orders(S) == {q \in [1..Cardinality(S) -> S] : Range(q) = S}

\* what hubspot_pull.py never touches
scope_only ==
    <<cfg, reqv, normv, state_store, main_calls, resolved, execution_order, idx,
      total_records, successful_endpoints, records, updated_after, max_seen_ts,
      started, run_io, requested, resolver_out>>

InitHubspot ==
    /\ script = "hubspot_pull.py"
    /\ wrapper = "data"
    /\ ENDPOINTS = [keys |-> HubspotKeys,
                    dependencies |-> [e \in Range(HubspotKeys) |-> <<>>]]
    /\ upstream \in {[deals |-> d, companies |-> <<>>] : d \in SeqsUpTo(DealKinds, MaxDeals)}
    /\ pc = "h_start"
    /\ Fresh

\* main() up to the pagination of extract_customer_deals (lines 290-296,
\* 113-144); get_hubspot_token may raise
HubspotMain ==
    /\ pc = "h_start"
    /\ \/ \E hr \in now_hr..MaxHour :
            /\ now_hr' = hr
            /\ part_key' = [state_key |-> <<"deals">>, hr |-> hr, run |-> RUN_ID]
            /\ pc' = "h_deals_request"
            /\ pass_err' = FALSE
       \/ /\ pc' = "h_crashed"
          /\ pass_err' = TRUE
          /\ UNCHANGED <<now_hr, part_key>>
    /\ total' = 0 /\ gz' = <<>> /\ offset' = 0
    /\ customer_company_ids' = {}
    /\ state_before' = state_store /\ pass_ops' = <<>> /\ loop_exit' = "none"
    /\ UNCHANGED <<scope_only, part_store, success_store, marker_exit, company_queue>>

\* one turn of the pagination loop of extract_customer_deals
DealsPage ==
    /\ pc = "h_deals_request"
    /\ \E rs \in HubspotScripts :
          LET n == deals_step(rs, upstream["deals"],
                              [total |-> total, gz |-> gz,
                               ids |-> customer_company_ids, after |-> offset])
          IN  /\ pc' = n.ctl
              /\ total' = n.total /\ gz' = n.gz /\ offset' = n.after
              /\ customer_company_ids' = n.ids
              /\ loop_exit' = n.exit
              /\ pass_err' = (pass_err \/ n.err)
    /\ UNCHANGED <<scope_only, now_hr, part_store, success_store, part_key,
                   state_before, pass_ops, marker_exit, company_queue>>

\* extract_customer_companies up to its for loop (lines 231-249)
CompaniesStart ==
    /\ pc = "h_companies"
    /\ IF customer_company_ids = {}
       THEN /\ pc' = "h_summary"
            /\ total' = 0
            /\ UNCHANGED <<now_hr, part_key, gz, company_queue>>
       ELSE /\ \E hr \in now_hr..MaxHour :
                 /\ now_hr' = hr
                 /\ part_key' = [state_key |-> <<"companies">>, hr |-> hr, run |-> RUN_ID]
            /\ company_queue' \in Orders(customer_company_ids)
            /\ total' = 0 /\ gz' = <<>>
            /\ pc' = "h_company_get"
    /\ pass_ops' = <<>> /\ loop_exit' = "none" /\ pass_err' = FALSE
    /\ state_before' = state_store
    /\ UNCHANGED <<scope_only, part_store, success_store, offset, marker_exit,
                   customer_company_ids>>

\* one turn of "for company_id in customer_company_ids" (lines 252-274):
\* the record is written, or raise_for_status raises HTTPError and the loop
\* continues, or requests.get itself raises
CompanyGet ==
    /\ pc = "h_company_get"
    /\ company_queue # <<>>
    /\ \E outcome \in {"json", "HTTPError", "RequestException"} :
          LET n == IF outcome = "json" THEN total + 1 ELSE total
          IN  /\ total' = n
              /\ gz' = IF outcome = "json" THEN Append(gz, Head(company_queue)) ELSE gz
              /\ pass_err' = (pass_err \/ outcome # "json")
              /\ pc' = IF outcome = "RequestException" THEN "h_crashed"
                       ELSE IF Tail(company_queue) # <<>> THEN "h_company_get"
                       ELSE hubspot_after_loop(n, "h_companies_part", "h_summary")
    /\ company_queue' = Tail(company_queue)
    /\ loop_exit' = IF Tail(company_queue) = <<>> THEN "last_page" ELSE "none"
    /\ UNCHANGED <<scope_only, now_hr, part_store, success_store, part_key, offset,
                   state_before, pass_ops, marker_exit, customer_company_ids>>

\* upload_gzip_bytes(BUCKET, part_key, ...) (lines 217 and 280)
HubspotUploadPart ==
    /\ pc \in {"h_deals_part", "h_companies_part"}
    /\ part_store' = put(part_store, part_key, gz)
    /\ pass_ops' = Append(pass_ops, "part")
    /\ pc' = IF pc = "h_deals_part" THEN "h_deals_success" ELSE "h_companies_success"
    /\ UNCHANGED <<scope_only, now_hr, success_store, part_key, total, offset, gz,
                   pass_err, loop_exit, state_before, marker_exit, hubv>>

\* upload_gzip_bytes(BUCKET, success_key, ...) (lines 218 and 281)
HubspotUploadSuccess ==
    /\ pc \in {"h_deals_success", "h_companies_success"}
    /\ success_store' = success_store \cup {part_key}
    /\ marker_exit' = put(marker_exit, part_key, loop_exit)
    /\ pass_ops' = Append(pass_ops, "success")
    /\ pc' = IF pc = "h_deals_success" THEN "h_companies" ELSE "h_summary"
    /\ UNCHANGED <<scope_only, now_hr, part_store, part_key, total, offset, gz,
                   pass_err, loop_exit, state_before, hubv>>

\* an upload that raises: nothing in main() catches it
HubspotUploadRaises ==
    /\ pc \in {"h_deals_part", "h_deals_success", "h_companies_part",
               "h_companies_success"}
    /\ pc' = "h_crashed"
    /\ pass_err' = TRUE
    /\ UNCHANGED <<scope_only, now_hr, part_store, success_store, part_key, total,
                   offset, gz, loop_exit, state_before, pass_ops, marker_exit, hubv>>

\* main(), lines 301-304
HubspotSummary ==
    /\ pc = "h_summary"
    /\ pc' = "h_done"
    /\ UNCHANGED <<scope_only, now_hr, part_store, success_store, part_key, total,
                   offset, gz, pass_err, loop_exit, state_before, pass_ops,
                   marker_exit, hubv>>

NextHubspot ==
    \/ HubspotMain
    \/ DealsPage
    \/ CompaniesStart
    \/ CompanyGet
    \/ HubspotUploadPart
    \/ HubspotUploadSuccess
    \/ HubspotUploadRaises
    \/ HubspotSummary

SpecHubspot == InitHubspot /\ [][NextHubspot]_vars

\* --------------------------- the publishing scripts, one endpoint or HubSpot
InitPublish == InitPass \/ InitHubspot

NextPublish == Next \/ NextHubspot

SpecPublish == InitPublish /\ [][NextPublish]_vars

\* ------------------------------------------------ request_page on its own
InitRequest ==
    /\ script \in RequestClients
    /\ wrapper = "data"
    /\ ENDPOINTS \in Configs(PassKeys, 0)
    /\ upstream = [e \in Range(PassKeys) |-> <<>>]
    /\ pc = "caller"
    /\ Fresh

\* request_page(url, headers, ...) called for one page
RequestOnly ==
    /\ pc = "caller"
    /\ \E rs \in HintedScripts :
          /\ responses' = rs
          /\ request_out' = request_page_of(script, rs)
    /\ pc' = "called"
    /\ UNCHANGED <<cfg, hubv, normv, now_hr, store, main_calls, resolved, execution_order,
                   idx, total_records, successful_endpoints, records, passv, ghost,
                   resolver_out>>

NextRequest == RequestOnly

SpecRequest == InitRequest /\ [][NextRequest]_vars

\* ------------------------------------------------- the normalizer on its own
\* most fields of an object given to the normalizer
MaxFields == 2

\* scalar values
Leaves == {JBool(TRUE), JStr(1)}

\* keys of the records: "name", "name?", "archived?", "archived??",
\* "is_archived" and the dynamic field "roles_users"
FieldKeys ==
    {Key("name"), QKey("name"), QKey("archived"),
     [is |-> 0, base |-> "archived", q |-> 2],
     [is |-> 1, base |-> "archived", q |-> 0], Key("roles_users")}

\* the objects of at most n fields with distinct keys and values in V
Objects(V, n) ==
    {JDict(kv) : kv \in {f \in SeqsUpTo([k : FieldKeys, v : V], n) :
                            \A i, j \in 1..Len(f) : f[i].k = f[j].k => i = j}}

\* what a field of a record may hold: a scalar, an object of scalars, an
\* array of one object
FieldValues ==
    Leaves \cup Objects(Leaves, MaxFields)
           \cup {JList(<<x>>) : x \in Objects(Leaves, 1)}

\* the records: flat with up to MaxFields fields, or one field of any value
Records == Objects(Leaves, MaxFields) \cup Objects(FieldValues, 1)

InitNormalize ==
    /\ script = "scope_pull.py"
    /\ wrapper = "data"
    /\ ENDPOINTS \in Configs(PassKeys, 0)
    /\ upstream = [e \in Range(PassKeys) |-> <<>>]
    /\ pc = "raw"
    /\ Fresh

\* each pass of the normalizer applied to a record (lines 83-126)
NormalizeOnly ==
    /\ pc = "raw"
    /\ \E x \in Records :
          /\ obj' = x
          /\ renamed' = rename_question_marks_recursive(x)
          /\ flattened' = normalize_dynamic_dicts(x)
    /\ pc' = "normalized"
    /\ UNCHANGED <<cfg, reqv, hubv, now_hr, store, main_calls, resolved,
                   execution_order, idx, total_records, successful_endpoints,
                   records, passv, ghost, resolver_out>>

NextNormalize == NormalizeOnly

SpecNormalize == InitNormalize /\ [][NextNormalize]_vars

\* ------------------------------------------------------------------ claims
\* a pass is between its read_state and its return or raise
InPass == pc \in {"request", "upload_part", "upload_success", "write_state"}

\* a pass has ended and no other has begun since
PassOver == pc \in {"loop", "start"} /\ idx > 1

\* the endpoint of the pass that ended last
LastEndpoint == execution_order[idx - 1]

\* the pagination loop ended on a short or empty page: no page request failed
LoopCompleted == loop_exit \in {"short", "empty"}

\* C1: if an error was raised at any point of a pass, the stored watermarks
\* after the pass are those from before the pass.
C1_WatermarkKeptOnError ==
    (PassOver /\ pass_err) => state_store = state_before

\* C2: every marker that exists was written by a pass whose pagination ended
\* on a short or empty page, no page request of it having failed.
C2_MarkerOnlyForCompletePass ==
    \A k \in success_store : marker_exit[k] \in {"short", "empty"}

\* C3: in a pass write_state is called at most once, never while the
\* pagination loop runs, and only after the data file and then the marker were
\* written; as long as it was not called the stored watermarks are those from
\* before the pass, so a process that stops earlier leaves them intact.
C3_WriteStateLast ==
    /\ Count(pass_ops, "state") <= 1
    /\ pc = "request" => pass_ops = <<>>
    /\ \A i \in 1..Len(pass_ops) :
          pass_ops[i] = "state" =>
              /\ i = 3
              /\ pass_ops[1] = "part"
              /\ pass_ops[2] = "success"
    /\ Count(pass_ops, "state") = 0 => state_store = state_before

\* a pass wrote the data file, the marker and then a new watermark
C3_Witness ==
    /\ pass_ops = <<"part", "success", "state">>
    /\ state_store # state_before

\* the configured dependencies of an endpoint
ConfiguredDeps(e) == Range(ENDPOINTS.dependencies[e]) \cap Range(ENDPOINTS.keys)

\* the endpoints e depends on through at most n + 1 configured dependencies
RECURSIVE Ancestors(_, _)
Ancestors(e, n) ==
    IF n = 0 THEN ConfiguredDeps(e)
    ELSE ConfiguredDeps(e) \cup UNION {Ancestors(d, n - 1) : d \in ConfiguredDeps(e)}

\* the dependency relation, restricted to configured identifiers, has a cycle
Cyclic == \E e \in Range(ENDPOINTS.keys) : e \in Ancestors(e, Len(ENDPOINTS.keys))

IndexIn(order, e) == CHOOSE i \in 1..Len(order) : order[i] = e

\* C4: for an acyclic mapping resolve_dependencies returns every configured
\* identifier exactly once, each configured dependency before its dependent.
C4_TopologicalOrder ==
    (pc = "resolver_done" /\ ~Cyclic) =>
        /\ ~resolver_out.raised
        /\ Len(resolver_out.order) = Len(ENDPOINTS.keys)
        /\ Range(resolver_out.order) = Range(ENDPOINTS.keys)
        /\ \A e \in Range(ENDPOINTS.keys) : \A d \in ConfiguredDeps(e) :
              IndexIn(resolver_out.order, d) < IndexIn(resolver_out.order, e)

\* A, B deps [A], C deps [A, B, unknown], with C first in the mapping's order
\* of independent endpoints: lists deps [companies], companies deps [users]
C4_Witness ==
    /\ pc = "resolver_done"
    /\ ENDPOINTS.dependencies["companies"] = <<"users", "tags">>
    /\ ENDPOINTS.dependencies["users"] = <<>>
    /\ ENDPOINTS.dependencies["lists"] = <<"users", "companies">>
    /\ resolver_out = Returned(<<"users", "companies", "lists">>)

\* C5: for a mapping with a cycle (a self-dependency included)
\* resolve_dependencies raises and returns no order at all.
C5_CycleRaises ==
    (pc = "resolver_done" /\ Cyclic) => resolver_out = Raised

\* users and lists depend on each other, companies is outside the cycle
C5_Witness ==
    /\ pc = "resolver_done"
    /\ ENDPOINTS.dependencies["companies"] = <<>>
    /\ ENDPOINTS.dependencies["users"] = <<"lists">>
    /\ ENDPOINTS.dependencies["lists"] = <<"users">>
    /\ resolver_out = Raised

\* C6: once the resolver failed with a cycle, main() starts no pass: no
\* request, no blob call, and the store holds nothing.
C6_CycleRunsNothing ==
    resolved = "cycle" =>
        /\ ~run_io
        /\ started = {}
        /\ ~InPass
        /\ state_store = NoBlobs /\ part_store = NoBlobs /\ success_store = {}

\* both main() calls of the process hit the cycle
C6_Witness ==
    /\ resolved = "cycle"
    /\ main_calls = 2
    /\ Cyclic

\* C7: in a main() whose resolve step succeeded the for loop starts the pass
\* of every endpoint in turn, whatever the earlier passes ended with: at the
\* k-th turn the first k - 1 endpoints of the order were started, and when
\* main() returns every configured endpoint was.
C7_EveryPassStarted ==
    /\ (pc = "loop" /\ resolved = "ok") =>
          /\ idx <= Len(execution_order) + 1
          /\ started = {execution_order[i] : i \in 1..(idx - 1)}
    /\ (pc = "start" /\ resolved = "ok") => started = Range(ENDPOINTS.keys)

\* main() returned after the first pass of the order failed and the second
\* returned
C7_Witness ==
    /\ pc = "start"
    /\ resolved = "ok"
    /\ Len(execution_order) = 2
    /\ successful_endpoints = <<execution_order[2]>>
    /\ started = Range(ENDPOINTS.keys)

\* C8: once the marker of a partition exists, neither its data file nor its
\* marker is uploaded again.
C8_NoUploadAfterMarker ==
    [][(pc \in {"upload_part", "upload_success"} /\ pc' = after_upload(pc))
          => part_key \notin success_store]_vars

\* upstream records that pass the archival filter
KeptCount(dataset) ==
    Cardinality({i \in 1..Len(dataset) :
        dict_get(dataset[i], QKey("archived")) # JBool(TRUE)})

\* C9: a pass whose page requests all succeeded writes, and returns the count
\* of, exactly the upstream records that pass the archival filter.
C9_CountIsFilteredUpstream ==
    /\ (pc = "upload_part" /\ LoopCompleted) =>
          /\ total = KeptCount(upstream[execution_order[idx]])
          /\ Len(gz) = total
    /\ (PassOver /\ LoopCompleted /\ ~pass_err) =>
          records = KeptCount(upstream[LastEndpoint])

\* C10: a pass that found the stored watermark W at its start writes no
\* record whose cursor value is below W.
C10_NothingBelowWatermark ==
    (InPass /\ part_key.state_key \in DOMAIN state_before) =>
        \A i \in 1..Len(gz) :
            Truthy(cursor_of(gz[i])) => cursor_of(gz[i]).s >= updated_after

\* the pass that ended last returned to main()
LastReturned ==
    /\ successful_endpoints # <<>>
    /\ successful_endpoints[Len(successful_endpoints)] = LastEndpoint

\* the upload steps of an extract function
Uploading ==
    pc \in {"upload_part", "upload_success", "write_state", "h_deals_part",
            "h_deals_success", "h_companies_part", "h_companies_success"}

\* C11: an extract function whose record total is zero uploads nothing: it
\* never reaches an upload step, and when it has returned zero no data file,
\* no marker and no watermark was written since its pass began.
C11_EmptyPassWritesNothing ==
    /\ Uploading => total > 0
    /\ (PassOver /\ LastReturned /\ records = 0) =>
          /\ pass_ops = <<>>
          /\ state_store = state_before
    /\ (pc \in {"h_companies", "h_summary", "h_done"} /\ total = 0) =>
          /\ pass_ops = <<>>
          /\ state_store = state_before

\* a pass over an upstream that holds records returned zero without error
C11_Witness ==
    /\ PassOver /\ LastReturned /\ records = 0
    /\ ~pass_err
    /\ upstream[LastEndpoint] # <<>>
    /\ pass_ops = <<>>

\* C12: every marker in the store has the data file of its partition beside
\* it, and within a pass the marker upload comes directly after the data
\* file upload; this holds in every state, those after a failed upload too.
C12_DataFileBeforeMarker ==
    /\ \A k \in success_store : k \in DOMAIN part_store
    /\ \A i \in 1..Len(pass_ops) :
          pass_ops[i] = "success" => (i > 1 /\ pass_ops[i - 1] = "part")

\* hubspot_pull.py published the deals and then the companies partition
C12_Witness ==
    /\ pc = "h_done"
    /\ pass_ops = <<"part", "success">>
    /\ Cardinality(success_store) = 2
    /\ part_key \in success_store

\* a written line that comes from an upstream record flagged as archived
Archived(line) ==
    \/ dict_get(line, QKey("archived")) = JBool(TRUE)
    \/ dict_get(line, new_key(QKey("archived"))) = JBool(TRUE)

\* C13: no record whose "archived?" flag is true is written: neither the
\* buffer of a running pass nor a stored data file holds one, and the total
\* of the pass counts the buffered lines only.
C13_ArchivedDropped ==
    /\ InPass => /\ total = Len(gz)
                 /\ \A i \in 1..Len(gz) : ~Archived(gz[i])
    /\ \A k \in DOMAIN part_store :
          \A i \in 1..Len(part_store[k]) : ~Archived(part_store[k][i])

\* some key of the value, at any depth, ends with '?'
RECURSIVE HasMarkedKey(_)
HasMarkedKey(v) ==
    CASE v.t = "dict" ->
            \E i \in 1..Len(v.kv) : v.kv[i].k.q > 0 \/ HasMarkedKey(v.kv[i].v)
      [] v.t = "list" -> \E i \in 1..Len(v.xs) : HasMarkedKey(v.xs[i])
      [] OTHER -> FALSE

\* C14: every line written, to the buffer of a pass or to a stored data
\* file, is free of keys ending with '?' at every depth.
C14_WrittenNormalized ==
    /\ InPass => \A i \in 1..Len(gz) : ~HasMarkedKey(gz[i])
    /\ \A k \in DOMAIN part_store :
          \A i \in 1..Len(part_store[k]) : ~HasMarkedKey(part_store[k][i])

\* the offsets 0, p, 2p, ... of n page requests
Offsets(n, p) == [i \in 1..n |-> (i - 1) * p]

\* the endpoint of the running pass, or of the pass that ended last
PassEndpoint == IF InPass THEN execution_order[idx] ELSE LastEndpoint

\* C15: the page requests of a pass go to the offsets 0, p, 2p, ... in
\* turn, and a loop whose requests all succeeded ends after exactly
\* floor(N/p) + 1 requests, on the first page that is empty or shorter
\* than p.
C15_RequestsUntilShortPage ==
    /\ pc = "request" =>
          /\ requested = Offsets(Len(requested), page_size(execution_order[idx]))
          /\ offset = Len(requested) * page_size(execution_order[idx])
    /\ ((InPass \/ PassOver) /\ pc # "request" /\ LoopCompleted /\ ~pass_err) =>
          LET p == page_size(PassEndpoint)
              N == Len(upstream[PassEndpoint])
          IN  /\ requested = Offsets((N \div p) + 1, p)
              /\ loop_exit = (IF N % p = 0 THEN "empty" ELSE "short")

\* page size 2 and 5 upstream records: requests at 0, 2 and 4
C15_Witness ==
    /\ pc = "upload_part"
    /\ LoopCompleted /\ ~pass_err
    /\ Len(upstream[execution_order[idx]]) = 5
    /\ page_size(execution_order[idx]) = 2
    /\ requested = <<0, 2, 4>>

\* the statuses the retry policy names as transient
TransientStatuses == {429, 500, 502, 503}

\* the first attempt whose response is not transient (0 if there is none)
FirstFinal ==
    IF \E i \in 1..Len(responses) : responses[i].status_code \notin TransientStatuses
    THEN CHOOSE i \in 1..Len(responses) :
            /\ responses[i].status_code \notin TransientStatuses
            /\ \A j \in 1..(i - 1) : responses[j].status_code \in TransientStatuses
    ELSE 0

\* C16: when the response to every attempt is transient, request_page sends
\* exactly max_retries requests and ends with an HTTP error.
C16_ExactlyMaxRetries ==
    (pc = "called" /\ FirstFinal = 0) =>
        /\ request_out.sent = max_retries
        /\ request_out.ends = "HTTPError"

\* C17: when request_page receives an error status outside the transient set,
\* it ends with an HTTP error on that response: no request follows it and
\* no sleep, the sleeps being those of the transient responses before it.
C17_NonTransientFailsAtOnce ==
    (/\ pc = "called"
     /\ FirstFinal > 0
     /\ request_out.sent >= FirstFinal
     /\ responses[FirstFinal].status_code >= 400) =>
        /\ request_out.ends = "HTTPError"
        /\ request_out.sent = FirstFinal
        /\ Len(request_out.sleeps) = FirstFinal - 1

\* a 404 after two transient responses: three requests, two sleeps
C17_Witness ==
    /\ pc = "called"
    /\ FirstFinal = 3
    /\ responses[3].status_code = 404
    /\ request_out = [ends |-> "HTTPError", sent |-> 3, sleeps |-> <<1, 2>>, backoff |-> 4]

\* C18: the sleep that follows a transient response carrying a Retry-After
\* in seconds lasts that number of seconds.
C18_RetryAfterWins ==
    pc = "called" =>
        \A i \in 1..Len(request_out.sleeps) :
            responses[i].retry_after.kind = "seconds" =>
                request_out.sleeps[i] = responses[i].retry_after.seconds

\* C19: main() records an endpoint as succeeded exactly when its pass ended
\* without any error; a pass whose fetch met an HTTP failure is not among the
\* successful endpoints of the summary.
C19_SummaryCountsCleanPasses ==
    PassOver => (LastReturned <=> ~pass_err)

\* the passes of this main() that have ended
Ended == IF InPass THEN started \ {execution_order[idx]} ELSE started

\* C20: while the pass of an endpoint runs, the pass of each of its
\* configured dependencies has ended, and so has every other pass that was
\* started: the passes of a main() run one after the other in the resolved
\* order.
C20_DependenciesEndFirst ==
    InPass =>
        /\ ConfiguredDeps(execution_order[idx]) \subseteq Ended
        /\ Ended = {execution_order[i] : i \in 1..(idx - 1)}
        /\ execution_order[idx] \in started

\* companies depends on users, which the mapping lists second: the pass of
\* companies runs after the pass of users has ended
C20_Witness ==
    /\ InPass
    /\ execution_order[idx] = "companies"
    /\ ConfiguredDeps("companies") = {"users"}
    /\ Ended = {"users"}

\* C21: renaming the keys of a renamed record changes nothing.
C21_RenameIdempotent ==
    pc = "normalized" => rename_question_marks_recursive(renamed) = renamed

\* the object a sequence of {key, value} pairs was made from
Rebuilt(pairs) ==
    JDict([i \in 1..Len(pairs.xs) |->
              [k |-> dict_get(pairs.xs[i], Key("key")).s,
               v |-> dict_get(pairs.xs[i], Key("value"))]])

\* out is in with every object under a dynamic field replaced by a
\* sequence of two-field pairs from which the object is rebuilt
RECURSIVE Lossless(_, _)
Lossless(in, out) ==
    CASE in.t = "dict" ->
            /\ out.t = "dict"
            /\ Len(out.kv) = Len(in.kv)
            /\ \A i \in 1..Len(in.kv) :
                  /\ out.kv[i].k = in.kv[i].k
                  /\ IF in.kv[i].k = Key("roles_users") /\ in.kv[i].v.t = "dict"
                     THEN /\ out.kv[i].v.t = "list"
                          /\ Len(out.kv[i].v.xs) = Len(in.kv[i].v.kv)
                          /\ \A j \in 1..Len(out.kv[i].v.xs) :
                                /\ out.kv[i].v.xs[j].t = "dict"
                                /\ Len(out.kv[i].v.xs[j].kv) = 2
                          /\ Rebuilt(out.kv[i].v) = in.kv[i].v
                     ELSE Lossless(in.kv[i].v, out.kv[i].v)
      [] in.t = "list" ->
            /\ out.t = "list"
            /\ Len(out.xs) = Len(in.xs)
            /\ \A i \in 1..Len(in.xs) : Lossless(in.xs[i], out.xs[i])
      [] OTHER -> out = in

\* C22: normalize_dynamic_dicts turns the object under roles_users into one
\* {key, value} pair per entry, in the object's order, from which the object
\* is rebuilt unchanged; everything else stays as it was.
C22_FlatteningLossless ==
    pc = "normalized" => Lossless(obj, flattened)

\* {"roles_users": {"name?": .., "archived??": ..}} flattened to two pairs
C22_Witness ==
    /\ pc = "normalized"
    /\ Len(obj.kv) = 1
    /\ obj.kv[1].k = Key("roles_users")
    /\ obj.kv[1].v.t = "dict"
    /\ Len(obj.kv[1].v.kv) = 2
    /\ flattened.kv[1].v.t = "list"
    /\ Len(flattened.kv[1].v.xs) = 2
    /\ dict_get(flattened.kv[1].v.xs[1], Key("key")) = JStr(obj.kv[1].v.kv[1].k)

\* out is in with every key replaced by its new_key, field by field, at
\* every depth, and every scalar unchanged
RECURSIVE KeysRewritten(_, _)
KeysRewritten(in, out) ==
    CASE in.t = "dict" ->
            /\ out.t = "dict"
            /\ Len(out.kv) = Len(in.kv)
            /\ \A i \in 1..Len(in.kv) :
                  /\ i <= Len(out.kv)
                  /\ out.kv[i].k = new_key(in.kv[i].k)
                  /\ KeysRewritten(in.kv[i].v, out.kv[i].v)
      [] in.t = "list" ->
            /\ out.t = "list"
            /\ Len(out.xs) = Len(in.xs)
            /\ \A i \in 1..Len(in.xs) : KeysRewritten(in.xs[i], out.xs[i])
      [] OTHER -> out = in

\* C29: the renamed record has, at every depth, the fields of the input in
\* the same number and order, each under its rewritten key and with its
\* value otherwise unchanged; without a marked key the record is unchanged.
C29_RenameKeepsFields ==
    pc = "normalized" =>
        /\ KeysRewritten(obj, renamed)
        /\ ~HasMarkedKey(obj) => renamed = obj

\* the dependency lists without the identifiers that are not configured
DeclaredKnown ==
    [e \in Range(ENDPOINTS.keys) |->
        SelectSeq(ENDPOINTS.dependencies[e], LAMBDA d : d \in Range(ENDPOINTS.keys))]

\* C23: the resolver gives for a mapping what it gives for the same mapping
\* without the unconfigured dependency identifiers, and such an identifier
\* alone never makes it raise.
C23_UnknownDependencyIgnored ==
    pc = "resolver_done" =>
        /\ resolver_out = resolve_dependencies(ENDPOINTS.keys, DeclaredKnown)
        /\ ~Cyclic => ~resolver_out.raised

\* users and lists both name the unconfigured "tags"
C23_Witness ==
    /\ pc = "resolver_done"
    /\ ENDPOINTS.dependencies["companies"] = <<>>
    /\ ENDPOINTS.dependencies["users"] = <<"tags">>
    /\ ENDPOINTS.dependencies["lists"] = <<"tags", "users">>
    /\ resolver_out = Returned(<<"companies", "users", "lists">>)

\* the endpoint's state object at the start of the running pass holds a
\* watermark
StoredBefore ==
    /\ part_key.state_key \in DOMAIN state_before
    /\ "updated_after" \in DOMAIN state_before[part_key.state_key]

\* C24: the watermark a pass works with is the stored updated_after when
\* the endpoint's state object exists and has the field, and the default
\* otherwise; reading changes nothing in the store.
C24_ReadStateOrDefault ==
    InPass =>
        /\ updated_after = (IF StoredBefore
                            THEN state_before[part_key.state_key].updated_after
                            ELSE default_since)
        /\ pc = "request" => state_store = state_before

\* a state object without updated_after: the pass works with the default
C24_Witness ==
    /\ pc = "request"
    /\ part_key.state_key \in DOMAIN state_before
    /\ state_before[part_key.state_key] = EmptyObject
    /\ updated_after = default_since
    /\ state_store = state_before

\* the cursor values of the records the running pass has written
WrittenCursors ==
    {cursor_of(gz[i]).s : i \in {j \in 1..Len(gz) : Truthy(cursor_of(gz[j]))}}

Maximum(S) == CHOOSE x \in S : \A y \in S : y <= x

\* the watermark stored for key k, when the object holds one
Watermark(blobs, k) == read_state(blobs, k, 0)

\* C27: when a pass uploads and writes state, max_seen_ts is the maximum
\* of the watermark read at the start and the cursors of the records it
\* wrote; the state step stores exactly that value, so no step lowers
\* the stored watermark of any endpoint.
C27_WatermarkIsMaximum ==
    /\ [](pc \in {"upload_part", "upload_success", "write_state"} =>
             max_seen_ts = Maximum({updated_after} \cup WrittenCursors))
    /\ [][/\ state_store' # state_store =>
                 /\ pc = "write_state"
                 /\ state_store' = put(state_store, part_key.state_key,
                                       StateObject(max_seen_ts))
           /\ \A k \in DOMAIN state_store :
                 /\ k \in DOMAIN state_store'
                 /\ Watermark(state_store', k) >= Watermark(state_store, k)]_vars

\* a pass that read watermark 3 and wrote a record with cursor 1 is about
\* to store 3
C27_Witness ==
    /\ pc = "write_state"
    /\ updated_after = 3
    /\ 1 \in WrittenCursors
    /\ max_seen_ts = 3

\* the ceiling of the backoff in the request_page of the script
Ceiling == IF script = "hubspot_pull.py" THEN 60 ELSE 30

Min(a, b) == IF a < b THEN a ELSE b

\* the delay before retry k was computed, not read from a Retry-After header
Computed(k) ==
    ~ /\ script = "hubspot_pull.py"
      /\ responses[k].status_code = 429
      /\ responses[k].retry_after.kind = "seconds"

\* C28: in one call of request_page the computed delay before retry k is
\* min(2^(k-1), ceiling), so the first is 1 in every call and none
\* exceeds the ceiling (30 in the Scope scripts, 60 in hubspot_pull.py);
\* the backoff the call ends with is the next term of the same sequence.
C28_BackoffDoublesToCeiling ==
    pc = "called" =>
        /\ \A k \in 1..Len(request_out.sleeps) :
              Computed(k) =>
                  /\ request_out.sleeps[k] = Min(2 ^ (k - 1), Ceiling)
                  /\ request_out.sleeps[k] <= Ceiling
        /\ request_out.backoff = Min(2 ^ Len(request_out.sleeps), Ceiling)

\* a Scope call that met transient answers on every attempt slept
\* 1, 2, 4, 8, 16 and ends with the backoff at its ceiling
C28_Witness ==
    /\ pc = "called"
    /\ script = "scope_pull.py"
    /\ request_out.sleeps = <<1, 2, 4, 8, 16>>
    /\ request_out.backoff = 30

\* C26: the state keys of the configured endpoints are pairwise distinct;
\* a pass works under the state key of its own endpoint, reads its
\* watermark from that key, and a step changes no state object but the
\* one of the endpoint whose pass is running.
C26_StateKeysDistinct ==
    /\ [](/\ \A a, b \in DOMAIN resource :
                a # b => state_key(a) # state_key(b)
          /\ InPass =>
                /\ part_key.state_key = state_key(execution_order[idx])
                /\ updated_after = read_state(state_before,
                                        state_key(execution_order[idx]),
                                        default_since)
                /\ \A e \in Range(ENDPOINTS.keys) \ {execution_order[idx]} :
                      state_key(e) # part_key.state_key)
    /\ [][\A k \in DOMAIN state_store' :
             (k \notin DOMAIN state_store \/ state_store'[k] # state_store[k])
                 => InPass /\ k = state_key(execution_order[idx])]_vars

\* the pass of one endpoint requests pages while the watermark of another
\* endpoint is stored
C26_Witness ==
    /\ pc = "request"
    /\ \E e \in Range(ENDPOINTS.keys) \ {execution_order[idx]} :
          state_key(e) \in DOMAIN state_store

\* the shapes from which the fetcher takes the records of a page
Accepted == {"array", "data", "items", "items_beside_empty_data"}

\* C25: when the page responses are top-level arrays or objects holding
\* the records under data or items, a loop whose requests all succeed
\* requests every page of the endpoint; with any other body the first
\* successful response ends the loop as an empty page: one request, no
\* record, no error and nothing written.
C25_ResponseWrappers ==
    ((InPass \/ PassOver) /\ pc # "request" /\ LoopCompleted /\ ~pass_err) =>
        LET p == page_size(PassEndpoint)
            N == Len(upstream[PassEndpoint])
        IN  IF wrapper \in Accepted
            THEN /\ requested = Offsets((N \div p) + 1, p)
                 /\ N > 0 => pc \in {"upload_part", "upload_success", "write_state"}
                              \/ pass_ops # <<>>
            ELSE /\ requested = <<0>>
                 /\ loop_exit = "empty"
                 /\ PassOver
                 /\ records = 0
                 /\ pass_ops = <<>>
                 /\ state_store = state_before

\* the API holds records but wraps them under a field the fetcher does
\* not know: the pass ends after one request with nothing extracted
C25_Witness ==
    /\ PassOver
    /\ wrapper = "results"
    /\ Len(upstream[LastEndpoint]) > 0
    /\ loop_exit = "empty" /\ ~pass_err
    /\ requested = <<0>>
    /\ records = 0

====
